---- MODULE Spec2Model ----
(***************************************************************************)
(* The Knowledge Store of the legal question-answering backend:            *)
(* app/backend/knowledge.py (KnowledgeStore) and its consumers in          *)
(* app/api.py (ask_ai, upload_documents).  Threads are the concurrent      *)
(* request handlers of one process; they share one KnowledgeStore, its     *)
(* RLock, its lazily constructed VectorIndex and the index directory on    *)
(* disk.                                                                   *)
(*                                                                         *)
(* VectorIndex (app.nlp.embedding), build_chunks (app.nlp.ingest) and the  *)
(* classifier (app.models.classifier) are modelled from spec.md sections   *)
(* 4.1, 4.2 and 4.5.                                                       *)
(***************************************************************************)
EXTENDS Integers, Sequences, FiniteSets, TLC

\* ------------------------------------------------------------------ bounds
\* chunks of one file, and chunks submitted to one index directory in a run
MaxChunks == 2
MaxRecords == 3
\* largest top_k of the questions asked over a store of two full documents
MaxTopK == 4
\* files of one upload request, and Document rows committed in a run
MaxFiles == 2
MaxRows == 3

\* values of top_k (ChatRequest.top_k is 1..10)
Ks == {1, 2}

Threads == {"t1", "t2"}

\* the document each handler uploads
DocOf(t) == IF t = "t1" THEN "perda-1" ELSE "perda-2"
Docs == {DocOf(t) : t \in Threads}

\* KnowledgeStore.__init__(dim=384); the wrong-size vector of spec.md section 8
Dim == 384
BadDim == 128

VARIABLES
    index,        \* KnowledgeStore._index: the VectorIndex, or not constructed yet
    disk,         \* the persisted store under index_dir
    lock,         \* KnowledgeStore._lock: its owner, or "free"
    pc,           \* each thread's position in its KnowledgeStore call
    op,           \* each thread's current KnowledgeStore call and its arguments
    frame,        \* add_file's locals: texts, metas; add_texts' progress
    res,          \* what the call returns or raises
    calls,        \* chunks handed to add_file so far (bounded by MaxRecords)
    hist,         \* history of the store, for stating the claims
    req,          \* each thread's ask_ai or upload_documents request: stage and locals
    cls,          \* the classifier's model file, and how often it was trained
    db            \* the Document rows committed to the database, oldest first

vars == <<index, disk, lock, pc, op, frame, res, calls, hist, req, cls, db>>

\* ------------------------------------------------------------- VectorIndex
NoIndex == [built |-> FALSE, embeddings |-> <<>>, metadata |-> <<>>]
EmptyIndex == [built |-> TRUE, embeddings |-> <<>>, metadata |-> <<>>]
MissingStore == [state |-> "missing", embeddings |-> <<>>, metadata |-> <<>>]
CorruptStore == [state |-> "corrupt", embeddings |-> <<>>, metadata |-> <<>>]

Min(a, b) == IF a < b THEN a ELSE b

\* embed(text): a vector of the index's dimension, except for a text the
\* embedding function answers with a vector of another size
Embed(text, wrongSize) == [dim |-> IF wrongSize THEN BadDim ELSE Dim, of |-> text]

\* add_texts embeds every text before it appends anything
EmbedAll(texts, bad) ==
    [i \in 1..Len(texts) |-> Embed(texts[i], bad /\ i = Len(texts))]

DimensionMismatch(vecs) == \E i \in 1..Len(vecs) : vecs[i].dim # Dim

\* save(): the full embedding matrix and metadata list
Saved(idx) == [state |-> "ok", embeddings |-> idx.embeddings, metadata |-> idx.metadata]

\* load() raises on a store it cannot read
LoadRaises(store) ==
    \/ store.state = "corrupt"
    \/ store.state = "ok" /\ Len(store.embeddings) # Len(store.metadata)

\* load(): the stored matrix and list; a missing or corrupt store leaves the
\* index valid and empty
Loaded(store) ==
    IF store.state = "ok" /\ ~LoadRaises(store)
    THEN [built |-> TRUE, embeddings |-> store.embeddings, metadata |-> store.metadata]
    ELSE EmptyIndex

IsEmpty(idx) == Len(idx.metadata) = 0

Score(query, vec) == IF vec.of = query THEN 1 ELSE 0

\* search(query, k): the k nearest records by descending score, ties by
\* insertion order; fewer when the index holds fewer
Ranked(idx, query) ==
    LET n == Min(Len(idx.embeddings), Len(idx.metadata))
        pos == [i \in 1..n |-> i]
        near == SelectSeq(pos, LAMBDA i : Score(query, idx.embeddings[i]) = 1)
        far == SelectSeq(pos, LAMBDA i : Score(query, idx.embeddings[i]) = 0)
    IN near \o far

RawHits(idx, query, k) ==
    LET order == Ranked(idx, query)
        m == Min(k, Len(order))
    IN [j \in 1..m |-> [score |-> Score(query, idx.embeddings[order[j]]),
                        meta |-> idx.metadata[order[j]]]]

\* ------------------------------------------------------------------ Chunker
Text(d, i) == <<d, i>>

\* build_chunks(file_path, doc_id): the file's chunks in order
BuildChunks(d, n) ==
    [i \in 1..n |-> [doc_id |-> d, text |-> Text(d, i), meta |-> [text |-> Text(d, i)]]]

Queries == {Text(d, 1) : d \in Docs}

\* ----------------------------------------------------------- KnowledgeStore
\* first: the call began before this KnowledgeStore had constructed its index
NoOp == [kind |-> "none", doc_id |-> "", chunks |-> <<>>, query |-> <<>>, k |-> 0,
         first |-> FALSE]
NoFrame == [texts |-> <<>>, metas |-> <<>>, vecs |-> <<>>, cursor |-> 0,
            before |-> NoIndex, beforeDisk |-> MissingStore]
NoRes == [kind |-> "none", n |-> -1, hits |-> <<>>, empty |-> FALSE, exc |-> "none",
          partial |-> FALSE]

\* What has happened to the store.  everAdded: an add_file with chunks has
\* returned normally, in this process or an earlier one.  The rest is about the
\* KnowledgeStore of the running process: saveFailed, a save raised; loadState,
\* the store its lazy load found; appended, add_texts has appended a record;
\* addedOk, an add_file with chunks has returned normally;
\* preKnown and preIndex, the index the previous process held when it ended
\* with no save failed and the store readable; rebuilt, the call in progress
\* has loaded the store that process left; constructed, the VectorIndex
\* objects it has constructed.
NewLife == [saveFailed |-> FALSE, loadState |-> "none", appended |-> FALSE,
            addedOk |-> FALSE, constructed |-> 0,
            preKnown |-> FALSE, preIndex |-> NoIndex, rebuilt |-> FALSE]
NoHist == [everAdded |-> FALSE] @@ NewLife

\* ------------------------------------------------------------- classifier
\* the label vocabulary
LABELS == <<"kebijakan", "hukum">>

NoModel == [present |-> FALSE, texts |-> <<>>, labels |-> <<>>]

\* fit_and_save(texts, labels): the model file it writes
Fitted(texts, labels) == [present |-> TRUE, texts |-> texts, labels |-> labels]

\* predict(text, model): the best label and its score
Predict(texts, model) ==
    LET known == {i \in 1..Len(model.texts) : Len(texts) > 0 /\ model.texts[i] = texts[1]}
        best == IF known = {} THEN 1 ELSE CHOOSE i \in known : \A j \in known : i <= j
    IN [label |-> model.labels[best], score |-> IF known = {} THEN 0 ELSE 1]

\* Variant: answer_query without its case for no hits
AnswerModeOfHits(hits, use_llm, llmOk) ==
    IF ~use_llm THEN "extractive"
    ELSE IF llmOk THEN "llm" ELSE "llm_fallback"

\* answer_query(question, hits, use_llm): the mode of the answer
AnswerMode(hits, use_llm, llmOk) ==
    IF hits = <<>> THEN "empty"
    ELSE IF ~use_llm THEN "extractive"
    ELSE IF llmOk THEN "llm" ELSE "llm_fallback"

\* the answers: none yet, the fixed no-results message, a summary of the hit
\* texts, the language model's response to the question and the hit texts
NoAnswer == [kind |-> "none", texts |-> <<>>]
NoResults == [kind |-> "no_results", texts |-> <<>>]

NoClassification == [label |-> "", score |-> -1]

\* an ask_ai request: payload, locals and response; llm, the outcome of the
\* language-model call; predicted, the texts predict was given.
\* An upload_documents request: files, the chunks each uploaded file yields;
\* file, the position of the file in progress; results; base, the rows the
\* database held when the request began; detail, the exception it ended with
NoReq == [stage |-> "none", question |-> <<>>, top_k |-> 0, use_llm |-> FALSE,
          hits |-> <<>>, mode |-> "", model |-> NoModel, trained |-> FALSE,
          classification |-> NoClassification, status |-> 0, context |-> <<>>,
          answer |-> NoAnswer, llm |-> "none", predicted |-> <<>>,
          files |-> <<>>, file |-> 0, results |-> <<>>, base |-> 0, detail |-> ""]
NoCls == [model |-> NoModel, fits |-> 0, early |-> 0]

\* Variant: chunk_index counted from 0
ChunkIndexFromZero(metas) == Len(metas)

\* add_file: meta["chunk_index"] = len(metas) + 1
ChunkIndex(metas) == Len(metas) + 1

\* add_file: one pass of the loop over chunks
MetaOf(chunk, metas) ==
    [text |-> chunk.meta.text, doc_id |-> chunk.doc_id, chunk_index |-> ChunkIndex(metas)]

RECURSIVE MetasLoop(_, _)
MetasLoop(chunks, metas) ==
    IF chunks = <<>> THEN metas
    ELSE MetasLoop(Tail(chunks), Append(metas, MetaOf(Head(chunks), metas)))

TextsOf(chunks) == [i \in 1..Len(chunks) |-> chunks[i].text]

\* Variant: add_file without its early return
NoChunksIgnored(chunks) == FALSE

\* add_file: if not chunks
NoChunks(chunks) == chunks = <<>>

\* Variant: a lock that excludes nobody
LockGrantedAlways(t) == TRUE

\* with self._lock: the RLock is granted when no other thread owns it
LockGranted(t) == lock = "free" \/ lock = t

Init ==
    /\ index = NoIndex
    /\ disk = MissingStore
    /\ lock = "free"
    /\ pc = [t \in Threads |-> "idle"]
    /\ op = [t \in Threads |-> NoOp]
    /\ frame = [t \in Threads |-> NoFrame]
    /\ res = [t \in Threads |-> NoRes]
    /\ calls = 0
    /\ hist = NoHist
    /\ req = [t \in Threads |-> NoReq]
    /\ cls = NoCls
    /\ db = <<>>

\* add_file up to the lock: build_chunks, the early return, the texts and metas
StartAddFile(t) ==
    /\ pc[t] = "idle"
    /\ \E n \in 0..MaxChunks :
         /\ calls + n <= MaxRecords
         /\ calls' = calls + n
         /\ LET chunks == BuildChunks(DocOf(t), n) IN
              /\ op' = [op EXCEPT ![t] = [NoOp EXCEPT !.kind = "add_file",
                              !.doc_id = DocOf(t), !.chunks = chunks,
                              !.first = ~NoChunks(chunks) /\ ~index.built]]
              /\ IF NoChunks(chunks)
                 THEN /\ pc' = [pc EXCEPT ![t] = "done"]
                      /\ res' = [res EXCEPT ![t] = [NoRes EXCEPT !.kind = "add_file", !.n = 0]]
                      /\ frame' = frame
                 ELSE /\ pc' = [pc EXCEPT ![t] = "lock"]
                      /\ frame' = [frame EXCEPT ![t] = [NoFrame EXCEPT
                                      !.texts = TextsOf(chunks),
                                      !.metas = MetasLoop(chunks, <<>>)]]
                      /\ res' = res
    /\ UNCHANGED <<index, disk, lock, hist, req, cls, db>>

\* Variant: search without with self._lock
StartSearchUnlocked(t) ==
    /\ pc[t] = "idle"
    /\ \E q \in Queries, k \in Ks :
         op' = [op EXCEPT ![t] = [NoOp EXCEPT !.kind = "search", !.query = q, !.k = k,
                                              !.first = ~index.built]]
    /\ pc' = [pc EXCEPT ![t] = "ensure"]
    /\ UNCHANGED <<index, disk, lock, frame, res, hist, calls, req, cls, db>>

\* search up to the lock
StartSearch(t) ==
    /\ pc[t] = "idle"
    /\ \E q \in Queries, k \in Ks :
         op' = [op EXCEPT ![t] = [NoOp EXCEPT !.kind = "search", !.query = q, !.k = k,
                                              !.first = ~index.built]]
    /\ pc' = [pc EXCEPT ![t] = "lock"]
    /\ UNCHANGED <<index, disk, lock, frame, res, hist, calls, req, cls, db>>

StartIsEmpty(t) ==
    /\ pc[t] = "idle"
    /\ op' = [op EXCEPT ![t] = [NoOp EXCEPT !.kind = "is_empty", !.first = ~index.built]]
    /\ pc' = [pc EXCEPT ![t] = "lock"]
    /\ UNCHANGED <<index, disk, lock, frame, res, hist, calls, req, cls, db>>

\* Variant: the with block entered without waiting for the lock
AcquireNoWait(t) ==
    /\ pc[t] = "lock"
    /\ lock' = t
    /\ pc' = [pc EXCEPT ![t] = "ensure"]
    /\ UNCHANGED <<index, disk, op, frame, res, calls, hist, req, cls, db>>

\* with self._lock: entry
Acquire(t) ==
    /\ pc[t] = "lock"
    /\ LockGranted(t)
    /\ lock' = t
    /\ pc' = [pc EXCEPT ![t] = "ensure"]
    /\ UNCHANGED <<index, disk, op, frame, res, calls, hist, req, cls, db>>

AfterEnsure(kind) ==
    CASE kind = "add_file" -> "embed"
      [] kind = "search" -> "lookup"
      [] OTHER -> "check"

\* Variant: _ensure_index without its test of self._index
EnsureIndexAnew(t) ==
    /\ pc[t] = "ensure"
    /\ index' = Loaded(disk)
    /\ hist' = [hist EXCEPT !.loadState = disk.state,
                            !.constructed = Min(@ + 1, 2),
                            !.preKnown = FALSE, !.preIndex = NoIndex,
                            !.rebuilt = hist.preKnown]
    /\ frame' = [frame EXCEPT ![t].before = index', ![t].beforeDisk = disk]
    /\ pc' = [pc EXCEPT ![t] = AfterEnsure(op[t].kind)]
    /\ UNCHANGED <<disk, lock, op, res, calls, req, cls, db>>

\* _ensure_index: construct and load on first use; a failed load is logged only
EnsureIndex(t) ==
    /\ pc[t] = "ensure"
    /\ index' = IF index.built THEN index ELSE Loaded(disk)
    /\ hist' = IF index.built THEN hist
               ELSE [hist EXCEPT !.loadState = disk.state,
                                 !.constructed = @ + 1,
                                 !.preKnown = FALSE, !.preIndex = NoIndex,
                                 !.rebuilt = hist.preKnown]
    /\ frame' = [frame EXCEPT ![t].before = index', ![t].beforeDisk = disk]
    /\ pc' = [pc EXCEPT ![t] = AfterEnsure(op[t].kind)]
    /\ UNCHANGED <<disk, lock, op, res, calls, req, cls, db>>

\* Variant: index.save() runs even when add_texts raised
AddTextsThenSave(t) ==
    /\ pc[t] = "embed"
    /\ \E bad \in BOOLEAN :
       LET vecs == EmbedAll(frame[t].texts, bad) IN
         IF DimensionMismatch(vecs)
         THEN /\ res' = [res EXCEPT ![t] = [NoRes EXCEPT !.kind = "add_file", !.exc = "DimensionMismatch"]]
              /\ pc' = [pc EXCEPT ![t] = "save"]
              /\ frame' = frame
         ELSE /\ frame' = [frame EXCEPT ![t].vecs = vecs]
              /\ pc' = [pc EXCEPT ![t] = IF Len(vecs) = 0 THEN "save" ELSE "vector"]
              /\ res' = res
    /\ UNCHANGED <<index, disk, lock, op, calls, hist, req, cls, db>>

\* index.add_texts(texts, metas), first part: embed; DimensionMismatch leaves
\* the with block
AddTexts(t) ==
    /\ pc[t] = "embed"
    /\ \E bad \in BOOLEAN :
       LET vecs == EmbedAll(frame[t].texts, bad) IN
         IF DimensionMismatch(vecs)
         THEN /\ res' = [res EXCEPT ![t] = [NoRes EXCEPT !.kind = "add_file", !.exc = "DimensionMismatch"]]
              /\ pc' = [pc EXCEPT ![t] = "exit"]
              /\ frame' = frame
         ELSE /\ frame' = [frame EXCEPT ![t].vecs = vecs]
              /\ pc' = [pc EXCEPT ![t] = IF Len(vecs) = 0 THEN "save" ELSE "vector"]
              /\ res' = res
    /\ UNCHANGED <<index, disk, lock, op, calls, hist, req, cls, db>>

\* add_texts: append the next vector
AppendVector(t) ==
    /\ pc[t] = "vector"
    /\ index' = [index EXCEPT !.embeddings = Append(@, frame[t].vecs[frame[t].cursor + 1])]
    /\ pc' = [pc EXCEPT ![t] = "meta"]
    /\ UNCHANGED <<disk, lock, op, frame, res, calls, hist, req, cls, db>>

\* add_texts: append its metadata record
AppendMeta(t) ==
    /\ pc[t] = "meta"
    /\ index' = [index EXCEPT !.metadata = Append(@, frame[t].metas[frame[t].cursor + 1])]
    /\ frame' = [frame EXCEPT ![t].cursor = @ + 1]
    /\ hist' = [hist EXCEPT !.appended = TRUE]
    /\ pc' = [pc EXCEPT ![t] = IF frame[t].cursor + 1 = Len(frame[t].texts)
                                THEN "save" ELSE "vector"]
    /\ UNCHANGED <<disk, lock, op, res, calls, req, cls, db>>

\* Variant: add_file without index.save()
SaveSkipped(t) ==
    /\ pc[t] = "save"
    /\ pc' = [pc EXCEPT ![t] = "exit"]
    /\ UNCHANGED <<index, disk, lock, op, frame, res, calls, hist, req, cls, db>>

\* index.save() writes the store
SaveOk(t) ==
    /\ pc[t] = "save"
    /\ disk' = Saved(index)
    /\ pc' = [pc EXCEPT ![t] = "exit"]
    /\ UNCHANGED <<index, lock, op, frame, res, calls, hist, req, cls, db>>

\* index.save() raises (the directory cannot be written); nothing catches it
SaveFails(t) ==
    /\ pc[t] = "save"
    /\ res' = [res EXCEPT ![t] = [NoRes EXCEPT !.kind = "add_file", !.exc = "SaveFailure"]]
    /\ hist' = [hist EXCEPT !.saveFailed = TRUE]
    /\ pc' = [pc EXCEPT ![t] = "exit"]
    /\ UNCHANGED <<index, disk, lock, op, frame, calls, req, cls, db>>

\* a chunk of another thread's add_texts is in the index and a later one is not
MidAppend(u) ==
    \/ pc[u] = "meta"
    \/ pc[u] = "vector" /\ frame[u].cursor > 0

\* search: index.search and the hit records
Hit(raw) ==
    [doc_id |-> raw.meta.doc_id, chunk_index |-> raw.meta.chunk_index,
     text |-> raw.meta.text, score |-> raw.score]

\* Variant: a search that also writes the store
SearchLookupSaves(t) ==
    /\ pc[t] = "lookup"
    /\ LET raw == RawHits(index, op[t].query, op[t].k) IN
         res' = [res EXCEPT ![t] = [NoRes EXCEPT !.kind = "search",
                    !.hits = [j \in 1..Len(raw) |-> Hit(raw[j])],
                    !.partial = \E u \in Threads \ {t} : MidAppend(u)]]
    /\ disk' = Saved(index)
    /\ pc' = [pc EXCEPT ![t] = "exit"]
    /\ UNCHANGED <<index, lock, op, frame, calls, hist, req, cls, db>>

SearchLookup(t) ==
    /\ pc[t] = "lookup"
    /\ LET raw == RawHits(index, op[t].query, op[t].k) IN
         res' = [res EXCEPT ![t] = [NoRes EXCEPT !.kind = "search",
                    !.hits = [j \in 1..Len(raw) |-> Hit(raw[j])],
                    !.partial = \E u \in Threads \ {t} : MidAppend(u)]]
    /\ pc' = [pc EXCEPT ![t] = "exit"]
    /\ UNCHANGED <<index, disk, lock, op, frame, calls, hist, req, cls, db>>

\* index.search raises (the query cannot be embedded); nothing catches it
SearchFails(t) ==
    /\ pc[t] = "lookup"
    /\ res' = [res EXCEPT ![t] = [NoRes EXCEPT !.kind = "search", !.exc = "EmbeddingUnavailable"]]
    /\ pc' = [pc EXCEPT ![t] = "exit"]
    /\ UNCHANGED <<index, disk, lock, op, frame, calls, hist, req, cls, db>>

\* Variant: is_empty answered from the persisted store
IsEmptyFromDisk(t) ==
    /\ pc[t] = "check"
    /\ res' = [res EXCEPT ![t] = [NoRes EXCEPT !.kind = "is_empty", !.empty = disk.state # "ok"]]
    /\ pc' = [pc EXCEPT ![t] = "exit"]
    /\ UNCHANGED <<index, disk, lock, op, frame, calls, hist, req, cls, db>>

\* is_empty: index.is_empty()
IsEmptyCheck(t) ==
    /\ pc[t] = "check"
    /\ res' = [res EXCEPT ![t] = [NoRes EXCEPT !.kind = "is_empty", !.empty = IsEmpty(index)]]
    /\ pc' = [pc EXCEPT ![t] = "exit"]
    /\ UNCHANGED <<index, disk, lock, op, frame, calls, hist, req, cls, db>>

\* Variant: the lock released only when the block ends without an exception
ExitKeepsLockOnError(t) ==
    /\ pc[t] = "exit"
    /\ lock' = IF lock = t /\ res[t].exc = "none" THEN "free" ELSE lock
    /\ LET ok == op[t].kind = "add_file" /\ res[t].exc = "none" IN
         /\ res' = [res EXCEPT ![t] = IF ok THEN [NoRes EXCEPT !.kind = "add_file",
                                                               !.n = Len(frame[t].texts)]
                                             ELSE @]
         /\ hist' = [hist EXCEPT !.everAdded = @ \/ ok, !.addedOk = @ \/ ok, !.rebuilt = FALSE]
    /\ pc' = [pc EXCEPT ![t] = "done"]
    /\ op' = [op EXCEPT ![t] = NoOp]
    /\ frame' = [frame EXCEPT ![t] = NoFrame]
    /\ UNCHANGED <<index, disk, calls, req, cls, db>>

\* the with block's exit releases the lock, on return and on exception;
\* add_file then returns len(texts)
Exit(t) ==
    /\ pc[t] = "exit"
    /\ lock' = IF lock = t THEN "free" ELSE lock
    /\ LET ok == op[t].kind = "add_file" /\ res[t].exc = "none" IN
         /\ res' = [res EXCEPT ![t] = IF ok THEN [NoRes EXCEPT !.kind = "add_file",
                                                               !.n = Len(frame[t].texts)]
                                             ELSE @]
         /\ hist' = [hist EXCEPT !.everAdded = @ \/ ok, !.addedOk = @ \/ ok, !.rebuilt = FALSE]
    /\ pc' = [pc EXCEPT ![t] = "done"]
    /\ op' = [op EXCEPT ![t] = NoOp]
    /\ frame' = [frame EXCEPT ![t] = NoFrame]
    /\ UNCHANGED <<index, disk, calls, req, cls, db>>

\* the call is over: its caller has the result
Return(t) ==
    /\ pc[t] = "done"
    /\ req[t].stage = "none"
    /\ pc' = [pc EXCEPT ![t] = "idle"]
    /\ op' = [op EXCEPT ![t] = NoOp]
    /\ res' = [res EXCEPT ![t] = NoRes]
    /\ UNCHANGED <<index, disk, lock, frame, calls, hist, req, cls, db>>

\* the store on disk becomes unreadable
Corrupt ==
    /\ disk.state = "ok"
    /\ disk' = CorruptStore
    /\ UNCHANGED <<index, lock, pc, op, frame, res, calls, hist, req, cls, db>>

\* the process ends and a new one constructs a fresh KnowledgeStore over the
\* same index directory
Restart ==
    /\ \A t \in Threads : pc[t] = "idle"
    /\ index.built
    /\ index' = NoIndex
    /\ hist' = [everAdded |-> hist.everAdded] @@
               [NewLife EXCEPT !.preKnown = ~hist.saveFailed /\ disk.state # "corrupt",
                               !.preIndex = IF ~hist.saveFailed /\ disk.state # "corrupt"
                                            THEN index ELSE NoIndex]
    /\ UNCHANGED <<disk, lock, pc, op, frame, res, calls, req, cls, db>>

\* ------------------------------------------------------------------ ask_ai
\* ask_ai: the request arrives and calls knowledge.is_empty()
AskStart(t) ==
    /\ pc[t] = "idle"
    /\ \E q \in Queries, k \in Ks, llm \in BOOLEAN :
         req' = [req EXCEPT ![t] = [NoReq EXCEPT !.stage = "is_empty", !.question = q,
                                                 !.top_k = k, !.use_llm = llm]]
    /\ op' = [op EXCEPT ![t] = [NoOp EXCEPT !.kind = "is_empty", !.first = ~index.built]]
    /\ pc' = [pc EXCEPT ![t] = "lock"]
    /\ UNCHANGED <<index, disk, lock, frame, res, calls, hist, cls, db>>

\* ask_ai: an empty knowledge base is answered with status 400; otherwise
\* knowledge.search(question, k=top_k) is called
AskIsEmptyReturned(t) ==
    /\ pc[t] = "done"
    /\ req[t].stage = "is_empty"
    /\ IF res[t].empty
       THEN /\ req' = [req EXCEPT ![t] = [@ EXCEPT !.stage = "respond", !.status = 400]]
            /\ pc' = [pc EXCEPT ![t] = "ask"]
            /\ op' = [op EXCEPT ![t] = NoOp]
       ELSE /\ req' = [req EXCEPT ![t].stage = "search"]
            /\ pc' = [pc EXCEPT ![t] = "lock"]
            /\ op' = [op EXCEPT ![t] = [NoOp EXCEPT !.kind = "search",
                            !.query = req[t].question, !.k = req[t].top_k]]
    /\ res' = [res EXCEPT ![t] = NoRes]
    /\ UNCHANGED <<index, disk, lock, frame, calls, hist, cls, db>>

HitTexts(hits) == [i \in 1..Len(hits) |-> hits[i].text]

\* answer_query(question, hits, use_llm): answer and mode; llm, whether the
\* language model was called and how the call ended
AnswerQuery(question, hits, use_llm, llmOk) ==
    [mode |-> AnswerMode(hits, use_llm, llmOk),
     answer |-> IF hits = <<>> THEN NoResults
                ELSE [kind |-> IF use_llm /\ llmOk THEN "llm" ELSE "extractive",
                      texts |-> HitTexts(hits)],
     llm |-> IF hits = <<>> \/ ~use_llm THEN "none"
             ELSE IF llmOk THEN "ok" ELSE "failed"]

\* ask_ai: no hits are answered with mode "empty"; otherwise answer_query runs
AskSearchReturned(t) ==
    /\ pc[t] = "done"
    /\ req[t].stage = "search"
    /\ LET hits == res[t].hits IN
         IF hits = <<>>
         THEN req' = [req EXCEPT ![t] = [@ EXCEPT !.stage = "respond", !.status = 200,
                                                  !.mode = "empty", !.answer = NoResults]]
         ELSE \E llmOk \in BOOLEAN :
                LET qa_result == AnswerQuery(req[t].question, hits, req[t].use_llm, llmOk) IN
                req' = [req EXCEPT ![t] = [@ EXCEPT !.stage = "load", !.hits = hits,
                           !.mode = qa_result.mode, !.answer = qa_result.answer,
                           !.llm = qa_result.llm]]
    /\ pc' = [pc EXCEPT ![t] = "ask"]
    /\ op' = [op EXCEPT ![t] = NoOp]
    /\ res' = [res EXCEPT ![t] = NoRes]
    /\ UNCHANGED <<index, disk, lock, frame, calls, hist, cls, db>>

\* Variant: ask_ai training whether or not a model was loaded
AskLoadModelThenFit(t) ==
    /\ pc[t] = "ask"
    /\ req[t].stage = "load"
    /\ req' = [req EXCEPT ![t] = [@ EXCEPT !.model = cls.model, !.stage = "fit"]]
    /\ cls' = [cls EXCEPT !.early = IF cls.model.present THEN @ ELSE @ + 1]
    /\ UNCHANGED <<index, disk, lock, pc, op, frame, res, calls, hist, db>>

\* ask_ai: model = load_model(); if model is None
AskLoadModel(t) ==
    /\ pc[t] = "ask"
    /\ req[t].stage = "load"
    /\ req' = [req EXCEPT ![t] = [@ EXCEPT !.model = cls.model,
                  !.stage = IF cls.model.present THEN "predict" ELSE "fit"]]
    /\ cls' = [cls EXCEPT !.early = IF cls.model.present THEN @ ELSE @ + 1]
    /\ UNCHANGED <<index, disk, lock, pc, op, frame, res, calls, hist, db>>

\* Variant: the labels cycled from the second of the vocabulary
CycleLabelsFromSecond(n) == [i \in 1..n |-> LABELS[(i % Len(LABELS)) + 1]]

\* ask_ai: labels = [LABELS[i % len(LABELS)] for i in range(len(texts))]
CycleLabels(n) == [i \in 1..n |-> LABELS[((i - 1) % Len(LABELS)) + 1]]

\* ask_ai: if texts: fit_and_save(texts, labels)
AskFit(t) ==
    /\ pc[t] = "ask"
    /\ req[t].stage = "fit"
    /\ LET texts == HitTexts(req[t].hits) IN
         IF texts # <<>>
         THEN /\ cls' = [cls EXCEPT !.model = Fitted(texts, CycleLabels(Len(texts))),
                                    !.fits = @ + 1]
              /\ req' = [req EXCEPT ![t] = [@ EXCEPT !.stage = "reload", !.trained = TRUE]]
         ELSE /\ cls' = cls
              /\ req' = [req EXCEPT ![t].stage = "predict"]
    /\ UNCHANGED <<index, disk, lock, pc, op, frame, res, calls, hist, db>>

\* ask_ai: model = load_model(), after fit_and_save
AskReload(t) ==
    /\ pc[t] = "ask"
    /\ req[t].stage = "reload"
    /\ req' = [req EXCEPT ![t] = [@ EXCEPT !.model = cls.model, !.stage = "predict"]]
    /\ UNCHANGED <<index, disk, lock, pc, op, frame, res, calls, hist, cls, db>>

\* ask_ai: if model: predict over the texts of hits[:3]; the response
AskPredict(t) ==
    /\ pc[t] = "ask"
    /\ req[t].stage = "predict"
    /\ LET top == SubSeq(req[t].hits, 1, Min(3, Len(req[t].hits))) IN
         req' = [req EXCEPT ![t] = [@ EXCEPT !.stage = "respond", !.status = 200,
                    !.context = req[t].hits,
                    !.predicted = HitTexts(top),
                    !.classification = IF req[t].model.present
                                       THEN Predict(HitTexts(top), req[t].model)
                                       ELSE NoClassification]]
    /\ UNCHANGED <<index, disk, lock, pc, op, frame, res, calls, hist, cls, db>>

\* ask_ai: the response leaves
AskRespond(t) ==
    /\ pc[t] = "ask"
    /\ req[t].stage = "respond"
    /\ req' = [req EXCEPT ![t] = NoReq]
    /\ pc' = [pc EXCEPT ![t] = "idle"]
    /\ UNCHANGED <<index, disk, lock, op, frame, res, calls, hist, cls, db>>

\* -------------------------------------------------------- upload_documents
\* upload_documents is an async handler that never awaits: the event loop
\* runs one upload request at a time, beside the worker threads of ask_ai
Loop == "t1"

\* the original filename of the file at position j of a request
FileDoc(j) == IF j % 2 = 1 THEN "perda-1" ELSE "perda-2"

\* the files a request may carry: for each file, the chunks it yields
FileLists == UNION {[1..m -> 0..MaxChunks] : m \in 0..MaxFiles}

RECURSIVE ChunksIn(_)
ChunksIn(files) == IF files = <<>> THEN 0 ELSE Head(files) + ChunksIn(Tail(files))

\* models.Document(original_filename, stored_filename, ...); chunks, the
\* chunks of the file, kept for stating the claims
Document(j, uuid, n) ==
    [original_filename |-> FileDoc(j), stored_filename |-> <<uuid, FileDoc(j)>>, chunks |-> n]

\* upload_documents: the request arrives; no files is answered with status 400
UploadStart(t) ==
    /\ pc[t] = "idle"
    /\ req[t].stage = "none"
    /\ \E files \in FileLists :
         /\ calls + ChunksIn(files) <= MaxRecords
         /\ Len(db) + Len(files) <= MaxRows
         /\ calls' = calls + ChunksIn(files)
         /\ req' = [req EXCEPT ![t] =
                [NoReq EXCEPT !.files = files, !.base = Len(db),
                              !.stage = IF files = <<>> THEN "respond" ELSE "file",
                              !.file = IF files = <<>> THEN 0 ELSE 1,
                              !.status = IF files = <<>> THEN 400 ELSE 0]]
    /\ pc' = [pc EXCEPT ![t] = "upload"]
    /\ UNCHANGED <<index, disk, lock, op, frame, res, hist, cls, db>>

\* upload_documents: the next file is stored and knowledge.add_file is called;
\* add_file up to the lock
UploadAddFile(t) ==
    /\ pc[t] = "upload"
    /\ req[t].stage = "file"
    /\ LET chunks == BuildChunks(FileDoc(req[t].file), req[t].files[req[t].file]) IN
         /\ op' = [op EXCEPT ![t] = [NoOp EXCEPT !.kind = "add_file",
                         !.doc_id = FileDoc(req[t].file), !.chunks = chunks,
                         !.first = ~NoChunks(chunks) /\ ~index.built]]
         /\ IF NoChunks(chunks)
            THEN /\ pc' = [pc EXCEPT ![t] = "done"]
                 /\ res' = [res EXCEPT ![t] = [NoRes EXCEPT !.kind = "add_file", !.n = 0]]
                 /\ frame' = frame
            ELSE /\ pc' = [pc EXCEPT ![t] = "lock"]
                 /\ frame' = [frame EXCEPT ![t] = [NoFrame EXCEPT
                                 !.texts = TextsOf(chunks),
                                 !.metas = MetasLoop(chunks, <<>>)]]
                 /\ res' = res
    /\ req' = [req EXCEPT ![t].stage = "add_file"]
    /\ UNCHANGED <<index, disk, lock, calls, hist, cls, db>>

\* Variant: the Document row committed whether or not add_file raised
UploadCommitsAnyway(t) ==
    /\ pc[t] = "done"
    /\ req[t].stage = "add_file"
    /\ LET j == req[t].file
           last == j = Len(req[t].files)
       IN /\ db' = Append(db, Document(j, Len(db) + 1, req[t].files[j]))
          /\ req' = [req EXCEPT ![t] = [@ EXCEPT
                        !.results = Append(@, [original_filename |-> FileDoc(j),
                                               chunks_indexed |-> res[t].n]),
                        !.stage = IF last THEN "respond" ELSE "file",
                        !.file = IF last THEN j ELSE j + 1,
                        !.status = IF last THEN 200 ELSE 0]]
    /\ pc' = [pc EXCEPT ![t] = "upload"]
    /\ op' = [op EXCEPT ![t] = NoOp]
    /\ res' = [res EXCEPT ![t] = NoRes]
    /\ UNCHANGED <<index, disk, lock, frame, calls, hist, cls>>

\* upload_documents: add_file has returned or raised.  An exception ends the
\* request; otherwise the Document row is added and committed (the commit may
\* fail, which ends the request too), the result is appended and the loop
\* goes on to the next file
UploadAddFileReturned(t) ==
    /\ pc[t] = "done"
    /\ req[t].stage = "add_file"
    /\ LET j == req[t].file
           last == j = Len(req[t].files)
       IN IF res[t].exc # "none"
          THEN /\ req' = [req EXCEPT ![t] = [@ EXCEPT !.stage = "respond", !.status = 500,
                                                      !.detail = res[t].exc]]
               /\ db' = db
          ELSE \E committed \in BOOLEAN :
                 IF committed
                 THEN /\ db' = Append(db, Document(j, Len(db) + 1, req[t].files[j]))
                      /\ req' = [req EXCEPT ![t] = [@ EXCEPT
                                    !.results = Append(@, [original_filename |-> FileDoc(j),
                                                           chunks_indexed |-> res[t].n]),
                                    !.stage = IF last THEN "respond" ELSE "file",
                                    !.file = IF last THEN j ELSE j + 1,
                                    !.status = IF last THEN 200 ELSE 0]]
                 ELSE /\ db' = db
                      /\ req' = [req EXCEPT ![t] = [@ EXCEPT !.stage = "respond",
                                    !.status = 500, !.detail = "CommitFailure"]]
    /\ pc' = [pc EXCEPT ![t] = "upload"]
    /\ op' = [op EXCEPT ![t] = NoOp]
    /\ res' = [res EXCEPT ![t] = NoRes]
    /\ UNCHANGED <<index, disk, lock, frame, calls, hist, cls>>

\* upload_documents: the response leaves
UploadRespond(t) ==
    /\ pc[t] = "upload"
    /\ req[t].stage = "respond"
    /\ req' = [req EXCEPT ![t] = NoReq]
    /\ pc' = [pc EXCEPT ![t] = "idle"]
    /\ UNCHANGED <<index, disk, lock, op, frame, res, calls, hist, cls, db>>

Next ==
    \/ \E t \in Threads :
         \/ StartAddFile(t)
         \/ StartSearch(t)
         \/ StartIsEmpty(t)
         \/ Acquire(t)
         \/ EnsureIndex(t)
         \/ AddTexts(t)
         \/ AppendVector(t)
         \/ AppendMeta(t)
         \/ SaveOk(t)
         \/ SaveFails(t)
         \/ SearchLookup(t)
         \/ SearchFails(t)
         \/ IsEmptyCheck(t)
         \/ Exit(t)
         \/ Return(t)
    \/ Corrupt
    \/ Restart

Spec == Init /\ [][Next]_vars

\* a step of thread t inside its with block: every index operation ends, by
\* returning or by raising
InsideStep(t) ==
    \/ EnsureIndex(t)
    \/ AddTexts(t)
    \/ AppendVector(t)
    \/ AppendMeta(t)
    \/ SaveOk(t)
    \/ SaveFails(t)
    \/ SearchLookup(t)
    \/ SearchFails(t)
    \/ IsEmptyCheck(t)
    \/ Exit(t)

\* the calls of one process, with no restart and no damage to the store
NextLive ==
    \E t \in Threads :
        \/ StartAddFile(t)
        \/ StartSearch(t)
        \/ StartIsEmpty(t)
        \/ Acquire(t)
        \/ InsideStep(t)
        \/ Return(t)

\* every index operation terminates, and a thread that finds the lock free
\* again and again is granted it
SpecLive ==
    /\ Init
    /\ [][NextLive]_vars
    /\ \A t \in Threads : WF_vars(InsideStep(t)) /\ SF_vars(Acquire(t))

\* the store a run of add_file calls leaves in the index directory: each
\* upload's vectors and metadata records behind those of the uploads before
RECURSIVE StoreAfter(_)
StoreAfter(uploads) ==
    IF uploads = <<>> THEN [state |-> "ok", embeddings |-> <<>>, metadata |-> <<>>]
    ELSE LET n == Len(uploads)
             before == StoreAfter(SubSeq(uploads, 1, n - 1))
             chunks == BuildChunks(uploads[n].doc_id, uploads[n].n)
         IN [state |-> "ok",
             embeddings |-> before.embeddings \o EmbedAll(TextsOf(chunks), FALSE),
             metadata |-> before.metadata \o MetasLoop(chunks, <<>>)]

\* the index directories a process that only answers questions starts over:
\* none yet, or the store earlier uploads saved
StoresAtStart ==
    {MissingStore,
     StoreAfter(<<[doc_id |-> "perda-1", n |-> 1]>>),
     StoreAfter(<<[doc_id |-> "perda-1", n |-> MaxChunks], [doc_id |-> "perda-2", n |-> 1]>>)}

InitAsk ==
    /\ index = NoIndex
    /\ disk \in StoresAtStart
    /\ lock = "free"
    /\ pc = [t \in Threads |-> "idle"]
    /\ op = [t \in Threads |-> NoOp]
    /\ frame = [t \in Threads |-> NoFrame]
    /\ res = [t \in Threads |-> NoRes]
    /\ calls = Len(disk.metadata)
    /\ hist = [NoHist EXCEPT !.everAdded = disk.state = "ok"]
    /\ req = [t \in Threads |-> NoReq]
    /\ cls = NoCls
    /\ db = <<>>

\* questions: ask_ai requests over the store earlier uploads left
NextAsk ==
    \E t \in Threads :
        \/ AskStart(t)
        \/ Acquire(t)
        \/ EnsureIndex(t)
        \/ SearchLookup(t)
        \/ IsEmptyCheck(t)
        \/ Exit(t)
        \/ AskIsEmptyReturned(t)
        \/ AskSearchReturned(t)
        \/ AskLoadModel(t)
        \/ AskFit(t)
        \/ AskReload(t)
        \/ AskPredict(t)
        \/ AskRespond(t)

SpecAsk == InitAsk /\ [][NextAsk]_vars

\* knowledge.search(query, k) over an index: the hit records
SearchHits(idx, query, k) ==
    LET raw == RawHits(idx, query, k) IN [j \in 1..Len(raw) |-> Hit(raw[j])]

\* the store two uploads of full documents have saved
FullStore ==
    StoreAfter(<<[doc_id |-> "perda-1", n |-> MaxChunks], [doc_id |-> "perda-2", n |-> MaxChunks]>>)

\* what ask_ai has in hand when knowledge.search returns: the payload, and
\* the hits the search found (found) or no hit at all
AskInputs ==
    [question : Queries, top_k : 1..MaxTopK, use_llm : BOOLEAN, found : BOOLEAN]

\* requests at line 198 of api.py, knowledge.search having returned, over the
\* index loaded from FullStore; no model on disk
InitAnswer ==
    /\ disk = FullStore
    /\ index = Loaded(disk)
    /\ lock = "free"
    /\ pc = [t \in Threads |-> "done"]
    /\ op = [t \in Threads |-> NoOp]
    /\ frame = [t \in Threads |-> NoFrame]
    /\ calls = Len(disk.metadata)
    /\ hist = [NoHist EXCEPT !.everAdded = TRUE, !.loadState = "ok", !.constructed = 1]
    /\ cls = NoCls
    /\ db = <<>>
    /\ \E in \in [Threads -> AskInputs] :
         /\ req = [t \in Threads |-> [NoReq EXCEPT !.stage = "search",
                       !.question = in[t].question, !.top_k = in[t].top_k,
                       !.use_llm = in[t].use_llm]]
         /\ res = [t \in Threads |-> [NoRes EXCEPT !.kind = "search",
                       !.hits = IF in[t].found
                                THEN SearchHits(index, in[t].question, in[t].top_k)
                                ELSE <<>>]]

\* ask_ai from the return of knowledge.search to the response
NextAnswer ==
    \E t \in Threads :
        \/ AskSearchReturned(t)
        \/ AskLoadModel(t)
        \/ AskFit(t)
        \/ AskReload(t)
        \/ AskPredict(t)
        \/ AskRespond(t)

SpecAnswer == InitAnswer /\ [][NextAnswer]_vars

\* uploads on the event loop beside the searches and is_empty calls of the
\* worker threads, in one process over an undamaged index directory
NextUpload ==
    \/ UploadStart(Loop)
    \/ UploadAddFile(Loop)
    \/ UploadAddFileReturned(Loop)
    \/ UploadRespond(Loop)
    \/ \E t \in Threads \ {Loop} :
         \/ StartSearch(t)
         \/ StartIsEmpty(t)
         \/ Return(t)
    \/ \E t \in Threads :
         \/ Acquire(t)
         \/ InsideStep(t)

SpecUpload == Init /\ [][NextUpload]_vars

\* ------------------------------------------------------------------ claims
AddFileAt(t, where) == pc[t] \in where /\ op[t].kind = "add_file"

\* the records of the index when thread t's call entered its with block
BaseOf(t) == Len(frame[t].before.metadata)

\* C1: every search computes its hits from an index in which no add_file call
\* has appended some of its chunks and not yet all of them.
SearchSeesWholeCalls == \A t \in Threads : res[t].kind = "search" => ~res[t].partial

\* a search has computed hits while another thread's add_file waits for the lock
SearchBesideAddFile ==
    \E t \in Threads, u \in Threads :
        /\ t # u
        /\ pc[t] = "exit" /\ res[t].kind = "search" /\ Len(res[t].hits) > 0
        /\ AddFileAt(u, {"lock"})

\* the chunks of thread t's call are at their places in a store or an index
HoldsChunks(s, t) ==
    /\ Len(s.metadata) >= BaseOf(t) + Len(frame[t].metas)
    /\ Len(s.embeddings) >= BaseOf(t) + Len(frame[t].metas)
    /\ \A i \in 1..Len(frame[t].metas) : s.metadata[BaseOf(t) + i] = frame[t].metas[i]

\* C2: when add_file leaves its with block, returning or raising, either all of
\* its chunks are in the index and in the persisted store, or the index and the
\* persisted store are as they were when it entered (the store not having been
\* damaged from outside meanwhile).
AddFileAllOrNothing ==
    \A t \in Threads :
        (AddFileAt(t, {"exit"}) /\ (disk = frame[t].beforeDisk \/ disk.state = "ok")) =>
            \/ HoldsChunks(index, t) /\ HoldsChunks(disk, t)
            \/ index = frame[t].before /\ disk = frame[t].beforeDisk

\* C3: whenever no call is inside its with block, or a call is about to leave
\* it, the index holds as many vectors as metadata records, and so does a
\* readable persisted store.
CountsAgree ==
    /\ (lock = "free" \/ \E t \in Threads : pc[t] = "exit") =>
           Len(index.embeddings) = Len(index.metadata)
    /\ disk.state = "ok" => Len(disk.embeddings) = Len(disk.metadata)

\* a failed add_file is over, the index holds records and nobody is inside
QuietAfterFailure ==
    /\ lock = "free"
    /\ Len(index.metadata) > 0
    /\ \E t \in Threads : pc[t] = "done" /\ res[t].exc = "DimensionMismatch"

\* C4: when add_texts raises DimensionMismatch inside add_file, the error is
\* what add_file raises, the index holds the records it held before and the
\* persisted store is the one it was.
AddTextsFailureLeavesStore ==
    \A t \in Threads :
        res[t].exc = "DimensionMismatch" =>
            /\ pc[t] \in {"exit", "done"}
            /\ pc[t] = "exit" =>
                 /\ index = frame[t].before
                 /\ disk.state # "corrupt" => disk = frame[t].beforeDisk

\* add_texts has raised on an index that holds records of a readable store
AddTextsFailedOnFilledIndex ==
    \E t \in Threads :
        /\ pc[t] = "exit" /\ res[t].exc = "DimensionMismatch"
        /\ Len(index.metadata) > 0 /\ disk.state = "ok"

IsEmptyAt(t, where) == pc[t] \in where /\ res[t].kind = "is_empty"

\* C5 as stated, on processes in which no save has raised: is_empty answers
\* true exactly when no add_file with chunks has ever returned normally.
IsEmptyIffNeverAdded ==
    \A t \in Threads :
        (IsEmptyAt(t, {"exit"}) /\ ~hist.saveFailed) => (res[t].empty <=> ~hist.everAdded)

\* C5 amended, first half: is_empty answers true exactly when the lazy load
\* found no readable store and add_texts has appended nothing since.
IsEmptyTellsRecords ==
    \A t \in Threads :
        IsEmptyAt(t, {"exit"}) => (res[t].empty <=> (hist.loadState # "ok" /\ ~hist.appended))

\* C5 amended, second half: while a call's answer false is held, no call of the
\* same KnowledgeStore answers true.
IsEmptyStaysFalse ==
    \A t \in Threads, u \in Threads :
        (IsEmptyAt(u, {"exit", "done"}) /\ ~res[u].empty /\ pc[t] = "check" /\ pc'[t] = "exit")
            => ~res'[t].empty

\* C5 amended: is_empty answers true exactly when the index of this
\* KnowledgeStore holds no record (its lazy load found no readable store and no
\* add_texts has appended since), and after it has answered false it answers
\* false on every later call of the same KnowledgeStore.
IsEmptyAmended == []IsEmptyTellsRecords /\ [][IsEmptyStaysFalse]_vars

\* is_empty answers false a second time
IsEmptyFalseTwice ==
    \E t \in Threads, u \in Threads :
        /\ t # u
        /\ IsEmptyAt(t, {"exit"}) /\ ~res[t].empty
        /\ IsEmptyAt(u, {"done"}) /\ ~res[u].empty

\* C7: a step of an add_file call whose file yields no chunks changes neither
\* the index (constructed or not) nor the persisted store nor the lock, and
\* ends the call with 0.
ZeroChunksStep ==
    \A t \in Threads :
        (op'[t].kind = "add_file" /\ op'[t].chunks = <<>> /\ pc'[t] # pc[t]) =>
            /\ index' = index /\ disk' = disk /\ lock' = lock
            /\ pc'[t] = "done" /\ res'[t].n = 0 /\ res'[t].exc = "none"

\* C7: an add_file whose file yields zero chunks returns 0 and leaves the
\* index, the persisted store and the lock untouched.
ZeroChunksNoEffect == [][ZeroChunksStep]_vars

\* add_file has returned 0 on a store whose index is not constructed
ZeroChunksReturned ==
    \E t \in Threads :
        /\ pc[t] = "done" /\ op[t].kind = "add_file" /\ op[t].chunks = <<>>
        /\ res[t].n = 0 /\ ~index.built /\ disk.state = "missing"

\* C8, the records: once add_texts has returned, the index holds what it held
\* before followed by one record per chunk, in chunk order, the i-th with
\* chunk_index i, the document's doc_id, and the chunk's text and vector.
AppendedInOrder ==
    \A t \in Threads :
        (AddFileAt(t, {"save", "exit"}) /\ res[t].exc = "none") =>
            LET n == Len(op[t].chunks) IN
            /\ Len(index.metadata) = BaseOf(t) + n
            /\ Len(index.embeddings) = BaseOf(t) + n
            /\ SubSeq(index.metadata, 1, BaseOf(t)) = frame[t].before.metadata
            /\ \A i \in 1..n :
                 /\ index.metadata[BaseOf(t) + i].chunk_index = i
                 /\ index.metadata[BaseOf(t) + i].doc_id = op[t].doc_id
                 /\ index.metadata[BaseOf(t) + i].text = op[t].chunks[i].text
                 /\ index.embeddings[BaseOf(t) + i] = Embed(op[t].chunks[i].text, FALSE)

\* C8, the result: an add_file that leaves its with block normally returns the
\* number of chunks
ReturnsCount ==
    \A t \in Threads :
        (AddFileAt(t, {"exit"}) /\ res[t].exc = "none" /\ pc'[t] = "done") =>
            res'[t].n = Len(op[t].chunks)

\* C8: a successful add_file of n >= 1 chunks returns n and appends exactly n
\* records in chunk order, the i-th with chunk_index i and the document's
\* doc_id, whatever the index held before.
AddFileAppends == []AppendedInOrder /\ [][ReturnsCount]_vars

\* two chunks have been added and saved behind records of an earlier call
TwoChunksAfterOthers ==
    \E t \in Threads :
        /\ AddFileAt(t, {"exit"}) /\ res[t].exc = "none"
        /\ Len(op[t].chunks) = 2 /\ BaseOf(t) > 0

\* C9: the index a fresh KnowledgeStore builds on first use equals the index
\* the previous process held, when that process ended with no save failed and
\* the store is readable; is_empty and search then answer alike.
RebuildStep ==
    (~index.built /\ index'.built /\ hist.preKnown /\ disk.state # "corrupt") =>
        /\ index' = hist.preIndex
        /\ IsEmpty(index') = IsEmpty(hist.preIndex)
        /\ \A q \in Queries, k \in Ks : RawHits(index', q, k) = RawHits(hist.preIndex, q, k)

\* C9: after a restart whose store was saved by successful add_file calls and
\* is still readable, the lazy load rebuilds the index the previous process
\* held: same records, same is_empty, same search results.
RestartRebuilds == [][RebuildStep]_vars

\* a restarted process has loaded two or more records
RebuiltAfterRestart == hist.rebuilt /\ Len(index.metadata) >= 2

\* C10: after a lazy load that found the store missing or corrupt, the index
\* is valid, the call goes on without an error, and until an add_file has
\* returned normally is_empty answers true and search returns no hits.
EmptyUntilAddSucceeds ==
    \A t \in Threads :
        (pc[t] = "exit" /\ hist.loadState \in {"missing", "corrupt"} /\ ~hist.addedOk) =>
            /\ res[t].exc \notin {"IndexLoadFailure"}
            /\ Len(index.embeddings) = Len(index.metadata)
            /\ res[t].kind = "is_empty" => res[t].empty
            /\ res[t].kind = "search" => res[t].hits = <<>>

\* C6 as stated: starting with no model on disk, fit_and_save runs at most once.
FitAtMostOnce == cls.fits <= 1

\* C6 amended, the count: fit_and_save has run at most as often as load_model
\* found no model, and a request about to train has found none
FitsWithinEarlyLoads ==
    /\ cls.fits + Cardinality({t \in Threads : req[t].stage = "fit"}) <= cls.early
    /\ \A t \in Threads : req[t].stage = "fit" => ~req[t].model.present /\ req[t].hits # <<>>

\* C6 amended, reuse: a request whose load_model finds a persisted model trains
\* nothing and goes on to predict with that model
LoadedModelIsReused ==
    \A t \in Threads :
        (req[t].stage = "load" /\ req'[t].stage # "load" /\ cls.model.present) =>
            /\ req'[t].stage = "predict"
            /\ req'[t].model = cls.model
            /\ cls' = cls

\* C6 amended: fit_and_save is run only by a request whose own load_model
\* found no model and whose hit set is non-empty, so requests that do not
\* overlap train at most once while each of several first requests that load
\* before a model is persisted trains; a request that finds a persisted model
\* trains nothing and predicts with it.
TrainsOnlyWithoutModel == []FitsWithinEarlyLoads /\ [][LoadedModelIsReused]_vars

\* a later request predicts with the model an earlier request trained
LaterRequestReusesModel ==
    /\ cls.fits = 1
    /\ \E t \in Threads : req[t].stage = "predict" /\ ~req[t].trained /\ req[t].model.present

\* C11, answer_query: on no hits the result is the fixed no-results answer
\* with mode "empty" and no language-model call, whatever use_llm is.
NoHitsAnswer ==
    \A t \in Threads :
        (pc[t] = "done" /\ req[t].stage = "search" /\ res[t].hits = <<>>) =>
            \A use_llm \in BOOLEAN, llmOk \in BOOLEAN :
                AnswerQuery(req[t].question, res[t].hits, use_llm, llmOk) =
                    [mode |-> "empty", answer |-> NoResults, llm |-> "none"]

\* C11, ask_ai: the step that follows a search without hits makes the response
\* at once: mode "empty", the fixed answer, an empty context, no
\* classification, no language-model call, no load_model and no fit_and_save.
NoHitsStep ==
    \A t \in Threads :
        (pc[t] = "done" /\ req[t].stage = "search" /\ res[t].hits = <<>> /\ req'[t] # req[t]) =>
            /\ req'[t].stage = "respond" /\ req'[t].status = 200
            /\ req'[t].mode = "empty" /\ req'[t].answer = NoResults
            /\ req'[t].context = <<>> /\ req'[t].classification = NoClassification
            /\ req'[t].llm = "none" /\ ~req'[t].trained /\ ~req'[t].model.present
            /\ cls' = cls

\* C11, the response: a response with mode "empty" carries no context and no
\* classification, and its request has called neither the language model nor
\* fit_and_save.
EmptyResponse ==
    \A t \in Threads :
        (req[t].stage = "respond" /\ req[t].mode = "empty") =>
            /\ req[t].answer = NoResults /\ req[t].context = <<>>
            /\ req[t].classification = NoClassification
            /\ req[t].llm = "none" /\ ~req[t].trained

\* C11: whenever the search for a question returns no hits the result has mode
\* "empty" with the fixed no-results answer, whatever use_llm is; the ask_ai
\* response carries an empty context and no classification, and neither the
\* language model nor fit_and_save is called.
NoHitsModeEmpty == [](NoHitsAnswer /\ EmptyResponse) /\ [][NoHitsStep]_vars

\* a request that asked for the language model is answered with mode "empty"
\* while another request has trained the classifier on its hits
EmptyAnswerDespiteLlm ==
    \E t \in Threads :
        /\ req[t].stage = "respond" /\ req[t].mode = "empty" /\ req[t].use_llm
        /\ cls.fits = 1

\* thread t is in the index section of its call: between the entry of the with
\* block and its exit
Inside(t) == pc[t] \in {"ensure", "embed", "vector", "meta", "save", "lookup", "check", "exit"}

\* C12, the section: a thread in the index section of add_file, search or
\* is_empty owns the lock, and no two threads are in an index section at once.
OneInside ==
    /\ \A t \in Threads : Inside(t) => lock = t
    /\ \A t \in Threads, u \in Threads : (Inside(t) /\ Inside(u)) => t = u

\* C12, the work: the index of the running KnowledgeStore is constructed,
\* loaded and appended to, the store is written, and hits and emptiness are
\* computed, only in steps of the thread that owns the lock.
WorkUnderLock ==
    /\ (index' # index /\ index'.built) => \E t \in Threads : lock = t /\ pc'[t] # pc[t]
    /\ (disk' # disk /\ disk'.state = "ok") => \E t \in Threads : lock = t /\ pc'[t] # pc[t]
    /\ \A t \in Threads : (res'[t] # res[t] /\ res'[t].kind \in {"search", "is_empty"}) => lock = t

\* C12: add_file, search and is_empty take the same lock and hold it for the
\* whole of their work on the index, so no two threads are ever inside the
\* index section of these operations together.
IndexSectionExclusive == []OneInside /\ [][WorkUnderLock]_vars

\* add_file is writing the store while a search and nobody else waits for the lock
SearchWaitsForSave ==
    \E t \in Threads, u \in Threads :
        /\ AddFileAt(t, {"save"}) /\ lock = t
        /\ pc[u] = "lock" /\ op[u].kind = "search"

\* thread t takes a step of a call of one of the given kinds
StepOf(t, kinds) == pc'[t] # pc[t] /\ (op[t].kind \in kinds \/ op'[t].kind \in kinds)

\* C13, the readers: a step of search or is_empty leaves the persisted store
\* alone, and leaves the index alone unless it is the first-use load.
ReadersChangeNothing ==
    \A t \in Threads :
        StepOf(t, {"search", "is_empty"}) =>
            /\ disk' = disk
            /\ \/ index' = index
               \/ ~index.built /\ pc[t] = "ensure" /\ index' = Loaded(disk)

\* C13, the records: while a KnowledgeStore lives the number of its records
\* never goes down, and it goes up only in a step of add_file.
RecordsOnlyGrow ==
    (index.built /\ index'.built) =>
        /\ Len(index'.metadata) >= Len(index.metadata)
        /\ Len(index'.embeddings) >= Len(index.embeddings)
        /\ SubSeq(index'.metadata, 1, Len(index.metadata)) = index.metadata
        /\ index' # index => \E t \in Threads : StepOf(t, {"add_file"})

\* C13: add_file is the only operation that grows the knowledge base: search
\* and is_empty change neither the index's records nor the persisted store
\* (apart from the first-use load), and no operation decreases the number of
\* records of a live KnowledgeStore.
OnlyAddFileGrows == [][ReadersChangeNothing /\ RecordsOnlyGrow]_vars

\* a search has found hits in an index whose records are not the store's
SearchLeftUnsavedRecords ==
    \E t \in Threads :
        /\ pc[t] = "exit" /\ res[t].kind = "search" /\ res[t].hits # <<>>
        /\ disk.state = "ok" /\ Len(disk.metadata) < Len(index.metadata)

\* C14, the count: a KnowledgeStore has constructed one VectorIndex when it
\* holds one, and none before.
OneIndex == hist.constructed = IF index.built THEN 1 ELSE 0

\* C14, the moment: the index is constructed by a call of add_file with
\* chunks, search or is_empty at _ensure_index, from the persisted store as it
\* is then; a built index stays the KnowledgeStore's index, and _ensure_index
\* hands it on as it is.
BuiltOnFirstUse ==
    /\ (~index.built /\ index'.built) =>
           /\ index' = Loaded(disk)
           /\ \E t \in Threads :
                /\ pc[t] = "ensure" /\ lock = t /\ pc'[t] # pc[t]
                /\ op[t].kind \in {"search", "is_empty"} \/ op[t].chunks # <<>>
    /\ (index.built /\ \E t \in Threads : pc[t] = "ensure" /\ pc'[t] # pc[t]) =>
           /\ index' = index
           /\ hist'.constructed = hist.constructed
    /\ (index.built /\ ~index'.built) => \A t \in Threads : pc[t] = "idle"

\* C14: a KnowledgeStore constructs exactly one VectorIndex in its lifetime,
\* on the first add_file with chunks, search or is_empty, loading the
\* persisted state then; concurrent first calls construct and load it once,
\* and every later operation uses that instance.
OneIndexPerStore == []OneIndex /\ [][BuiltOnFirstUse]_vars

\* a call that began before the index existed enters _ensure_index after
\* another thread's first call has constructed and filled it
SecondFirstCallFindsIndex ==
    \E t \in Threads :
        /\ pc[t] = "ensure" /\ op[t].first
        /\ index.built /\ hist.constructed = 1 /\ Len(index.metadata) > 0

\* C15, training: a request trains only after its load_model found no model
\* and on a non-empty hit set; it trains on the texts of all its hits in rank
\* order, the text at position i (from 0) labelled LABELS[i mod |LABELS|],
\* and the model is persisted.
BootstrapFit ==
    \A t \in Threads :
        /\ cls'.fits # cls.fits => \E u \in Threads : req[u].stage = "fit" /\ req'[u].trained
        /\ (req[t].stage = "fit" /\ req'[t] # req[t]) =>
            LET hits == req[t].hits
                n == Len(hits)
            IN /\ ~req[t].model.present /\ n > 0
               /\ cls'.model.present /\ cls'.fits = cls.fits + 1
               /\ cls'.model.texts = [i \in 1..n |-> hits[i].text]
               /\ Len(cls'.model.labels) = n
               /\ \A i \in 0..(n - 1) :
                    cls'.model.labels[i + 1] = LABELS[(i % Len(LABELS)) + 1]
               /\ req'[t].stage = "reload" /\ req'[t].trained

\* C15, reload: after fit_and_save the request loads the persisted model
BootstrapReload ==
    \A t \in Threads :
        (req[t].stage = "reload" /\ req'[t] # req[t]) =>
            /\ req'[t].model = cls.model /\ req'[t].model.present
            /\ req'[t].stage = "predict"

\* C15, prediction: the request predicts with the model it holds (the
\* reloaded one when it trained), over the texts of its first three hits or
\* of all its hits when they are fewer.
BootstrapPredict ==
    \A t \in Threads :
        (req[t].stage = "predict" /\ req'[t] # req[t] /\ req[t].model.present) =>
            LET hits == req[t].hits
                m == IF Len(hits) < 3 THEN Len(hits) ELSE 3
            IN /\ req'[t].predicted = [i \in 1..m |-> hits[i].text]
               /\ req'[t].classification = Predict(req'[t].predicted, req[t].model)
               /\ req'[t].hits = hits /\ req'[t].model = req[t].model

\* C15, no training: a request whose load_model finds a model goes on to
\* predict, and the model file is left as it is.
ModelFoundNoTraining ==
    \A t \in Threads :
        (req[t].stage = "load" /\ req'[t] # req[t] /\ cls.model.present) =>
            /\ req'[t].stage = "predict" /\ ~req'[t].trained
            /\ cls'.model = cls.model /\ cls'.fits = cls.fits

\* C15: when load_model finds no model and there are hits, ask_ai trains on
\* exactly the hit texts in rank order, position i (from 0) labelled
\* LABELS[i mod |LABELS|], persists the model, reloads it and predicts with the
\* reloaded model over the texts of at most the top 3 hits; when a model
\* exists no training happens.
ClassifierBootstrap ==
    [][BootstrapFit /\ BootstrapReload /\ BootstrapPredict /\ ModelFoundNoTraining]_vars

\* a request with more than three hits has trained and has its classification
\* from three texts
TrainedOnAllPredictedOnThree ==
    \E t \in Threads :
        /\ req[t].stage = "respond" /\ req[t].trained
        /\ Len(req[t].hits) > 3 /\ Len(req[t].predicted) = 3
        /\ Len(cls.model.texts) > 3
        /\ req[t].classification # NoClassification

\* C16, release: a thread that is not inside a with block does not own the
\* lock, whether its call returned or raised.
LockReleased == \A t \in Threads : ~Inside(t) => lock # t

\* C16, progress: a call that waits for the lock gets it and completes.
WaitingCallCompletes == \A t \in Threads : (pc[t] = "lock") ~> (pc[t] = "done")

\* C16: the lock is released on every exit path of add_file, search and
\* is_empty, so with terminating index operations and a fairly granted lock
\* every waiting call acquires it and completes, also after a failed add_file.
LockAlwaysReleased == []LockReleased /\ WaitingCallCompletes

\* a search owns the lock after an add_file has raised at save and a search
\* has raised
SearchRunsAfterFailures ==
    \E t \in Threads, u \in Threads :
        /\ pc[t] = "done" /\ res[t].exc = "EmbeddingUnavailable"
        /\ hist.saveFailed
        /\ lock = u /\ pc[u] = "lookup"

\* the n chunks of document d are n successive records of a store or an index
InStore(s, d, n) ==
    \/ n = 0
    \/ /\ Len(s.metadata) >= n /\ Len(s.embeddings) >= n
       /\ \E b \in 0..(Len(s.metadata) - n) :
            \A i \in 1..n :
                /\ s.metadata[b + i] = [text |-> Text(d, i), doc_id |-> d, chunk_index |-> i]
                /\ b + i <= Len(s.embeddings)
                /\ s.embeddings[b + i] = Embed(Text(d, i), FALSE)

\* the files of thread t's upload request that have their row: all before the
\* file in progress, and all of them once the request has succeeded
RowsDue(t) ==
    IF req[t].stage = "respond" /\ req[t].status = 200 THEN Len(req[t].files)
    ELSE IF req[t].file = 0 THEN 0 ELSE req[t].file - 1

\* C17, the commit: a Document row is committed only in the step that follows
\* a normal return of add_file for that file, add_file having returned the
\* file's chunk count.
RowAfterAddFile ==
    db' # db =>
        \E t \in Threads :
            /\ req[t].stage = "add_file" /\ pc[t] = "done"
            /\ res[t].kind = "add_file" /\ res[t].exc = "none"
            /\ res[t].n = req[t].files[req[t].file]
            /\ db' = Append(db, Document(req[t].file, Len(db) + 1, res[t].n))

\* C17, the order: the rows of a request are those of its files before the
\* file in progress, in upload order; after add_file has raised for a file
\* there is no row for it or for a later file, and the rows before stay.
RowsInUploadOrder ==
    \A t \in Threads :
        req[t].files # <<>> =>
            /\ Len(db) = req[t].base + RowsDue(t)
            /\ \A i \in 1..RowsDue(t) :
                 /\ db[req[t].base + i].original_filename = FileDoc(i)
                 /\ db[req[t].base + i].chunks = req[t].files[i]

\* C17, the records: the chunks of every file that has a row are in the index
\* and in the persisted store.
RowsAreIndexed ==
    \A r \in 1..Len(db) :
        /\ InStore(index, db[r].original_filename, db[r].chunks)
        /\ disk.state = "ok" \/ db[r].chunks = 0
        /\ InStore(disk, db[r].original_filename, db[r].chunks)

\* C17: upload_documents takes the files of a request in upload order and
\* commits a file's Document row only after add_file has returned for it
\* without raising; every row is of a file whose chunks are in the index and
\* persisted, and when add_file raises for a file neither it nor a later file
\* has a row while the rows and records of the files before stay.
RowsFollowAddFile == [](RowsInUploadOrder /\ RowsAreIndexed) /\ [][RowAfterAddFile]_vars

\* add_file has raised at save for the second file of a request: the first
\* file, with chunks, keeps its row and the request ends with status 500
SecondFileFailed ==
    \E t \in Threads :
        /\ req[t].stage = "respond" /\ req[t].status = 500
        /\ req[t].detail = "SaveFailure" /\ req[t].file = 2
        /\ Len(db) = req[t].base + 1
        /\ db[Len(db)].chunks > 0
====
